---- MODULE Spec2Model ----
(***************************************************************************)
(* Job lifecycle of the detect-text edge function.                         *)
(*                                                                         *)
(* The repository holds two variants of the Deno.serve handler:            *)
(*   "index"    supabase/functions/detect-text/index.ts                    *)
(*   "part_001" unnamed/part_001, lines 154-421                            *)
(* One of them is deployed (variant); the model checks both deployments.   *)
(*                                                                         *)
(* The store accesses of concurrent handler invocations interleave.        *)
(***************************************************************************)
EXTENDS Integers, Sequences, FiniteSets, TLC

\* ---------------------------------------------------------------- bounds
MaxJobs == 2
MaxReq == 2
MaxAnn == 2
MaxNow == 1
SizeWindow == 6
MaxCoord == 1
MaxUsers == 2
MaxRuns == 2
MaxUiTicks == 3
MaxSrvReq == 2
MaxSrvTicks == 1

JobIds == 1..MaxJobs
Reqs == 1..MaxReq

\* ------------------------------------------------------------- constants
Null == "null"
NoJob == [status |-> "absent"]

\* maxSize, index.ts:59
maxSize == 10 * 1024 * 1024

KeyMsg == "GCP Vision API key not configured"
KeyResponseMsg == "GCP Vision API key not configured. Please set GCP_VISION_API_KEY in edge function secrets."
VisionMsg == "GCP Vision API error"
MalformedMsg == "Cannot read properties of undefined"
TransportMsg == "fetch failed"
PayloadMsg == "Either imageUrl or imageBase64 must be provided"
StoreMsg == "Failed to store detections"

\* Request bodies. jobId 0 is a missing or empty jobId, NonString a jobId
\* that is truthy but not a string (a number, an object). imageBase64 is
\* described by: len, the length of the text after the data-URL prefix is
\* stripped (0 when the field is absent); pad, the number of '=' it ends
\* with; ok, whether it matches /^[A-Za-z0-9+/]*={0,2}$/.
NonString == -1
NoB64 == [len |-> 0, pad |-> 0, ok |-> TRUE]
Payloads ==
  { [imageUrl |-> TRUE,  imageBase64 |-> NoB64],
    [imageUrl |-> FALSE, imageBase64 |-> [len |-> 8, pad |-> 0, ok |-> TRUE]],
    [imageUrl |-> FALSE, imageBase64 |-> [len |-> 8, pad |-> 0, ok |-> FALSE]],
    [imageUrl |-> FALSE, imageBase64 |-> [len |-> 5, pad |-> 0, ok |-> TRUE]],
    [imageUrl |-> FALSE, imageBase64 |-> [len |-> 16777216, pad |-> 0, ok |-> TRUE]],
    [imageUrl |-> FALSE, imageBase64 |-> NoB64],
    [imageUrl |-> TRUE,  imageBase64 |-> [len |-> 8, pad |-> 0, ok |-> TRUE]] }

NoBody == [jobId |-> 0, imageUrl |-> FALSE, imageBase64 |-> NoB64]

\* the bodies requests are drawn from: every payload for every job id, one
\* body without a job id and one with a job id that is not a string
Bodies ==
  { [jobId |-> j, imageUrl |-> p.imageUrl, imageBase64 |-> p.imageBase64] :
      j \in JobIds, p \in Payloads }
  \cup { [jobId |-> j, imageUrl |-> FALSE,
          imageBase64 |-> [len |-> 8, pad |-> 0, ok |-> TRUE]] : j \in {0, NonString} }

\* Uploaded files (DetectionResults.tsx:108-155): sizes around the limit.
\* FileReader.readAsDataURL encodes the n bytes of the file as padded base64
\* behind a data-URL prefix, which index.ts:56 strips.
FileSizes == (maxSize - SizeWindow)..(maxSize + SizeWindow)

DataURL(n) == [len |-> 4 * ((n + 2) \div 3), pad |-> (3 - (n % 3)) % 3, ok |-> TRUE]

\* DetectionResults.tsx:116-120: if (file.size > maxSize) the file is refused
ClientAccepts(n) == ~(n > maxSize)

SizedBodies ==
  { [jobId |-> j, imageUrl |-> FALSE, imageBase64 |-> DataURL(n)] :
      j \in JobIds, n \in FileSizes }

NoResponse == [status |-> 0, error |-> Null, detections |-> <<>>, count |-> 0]

\* --------------------------------------------------------- JSON values
\* The values a bounding_box takes: null, an array of points {x, y}, or a
\* string. `text` is the string's content as a sequence of tokens.
NoJson == [type |-> "none", items |-> <<>>, text |-> <<>>]
JsonNull == [type |-> "null", items |-> <<>>, text |-> <<>>]
JsonArray(ps) == [type |-> "array", items |-> ps, text |-> <<>>]
JsonString(t) == [type |-> "string", items |-> <<>>, text |-> t]

Points == [x : 0..MaxCoord, y : 0..MaxCoord]

\* boundingPoly.vertices of an annotation: absent, or 4 points
Vertices == {JsonNull} \cup { JsonArray(ps) : ps \in [1..4 -> Points] }

DigitText == << "0", "1", "2", "3", "4", "5", "6", "7", "8", "9" >>
NumText(n) == DigitText[n + 1]
TextNum(t) == CHOOSE n \in 0..9 : DigitText[n + 1] = t

RECURSIVE StringifyPoints(_)
StringifyPoints(ps) ==
  IF ps = <<>> THEN <<>>
  ELSE << "{", "x", ":", NumText(ps[1].x), ",", "y", ":", NumText(ps[1].y), "}" >>
         \o StringifyPoints(Tail(ps))

\* JSON.stringify(v): the text of v, as tokens
Stringify(v) ==
  IF v.type = "null" THEN << "null" >>
  ELSE IF v.type = "string" THEN << "\"" >> \o v.text \o << "\"" >>
  ELSE << "[" >> \o StringifyPoints(v.items) \o << "]" >>

RECURSIVE ParsePoints(_)
ParsePoints(t) ==
  IF t = <<>> THEN <<>>
  ELSE << [x |-> TextNum(t[4]), y |-> TextNum(t[8])] >>
         \o ParsePoints(SubSeq(t, 10, Len(t)))

\* JSON.parse(t)
Parse(t) ==
  IF t = << "null" >> THEN JsonNull
  ELSE IF t[1] = "\"" THEN JsonString(SubSeq(t, 2, Len(t) - 1))
  ELSE JsonArray(ParsePoints(SubSeq(t, 2, Len(t) - 1)))

\* the value the handler puts in the row's bounding_box.
\* index.ts:187 and 206-212: vertices ? JSON.stringify(vertices) : null;
\* part_001:328-334: vertices ?? null, "no stringify"
BoundingBoxOf(variantName, v) ==
  IF variantName = "index"
    THEN IF v.type = "null" THEN JsonNull ELSE JsonString(Stringify(v))
    ELSE v

\* supabase-js sends the row as JSON text in the request body; the store
\* parses it and keeps the value of bounding_box in the jsonb column. A JSON
\* string stays a string in a jsonb column.
StoreJsonb(v) == Parse(Stringify(v))

\* the select returns the column as JSON text, which supabase-js parses; the
\* client takes the value as it is (bounding_box: any, part_000:27)
SelectJsonb(stored) == Parse(Stringify(stored))

\* ------------------------------------------------------------ confidence
\* Confidences are counted in hundredths: 95 is 0.95. The Vision API
\* reports a confidence between 0 and 1 for an annotation, or leaves the
\* field out.
Absent == -1
NotStored == -2
Reported == {Absent} \cup 0..100

\* the value the handler puts in the row's confidence.
\* index.ts:186 and 210: annotation.confidence || 0.95 (|| takes the right
\* side for undefined and for 0);
\* part_001:331: typeof annotation.confidence === "number" ?
\* annotation.confidence : 0.95
ConfidenceOf(variantName, c) ==
  IF variantName = "index"
    THEN IF c = Absent \/ c = 0 THEN 95 ELSE c
    ELSE IF c = Absent THEN 95 ELSE c

\* ---------------------------------------------------------------- client
Runs == 1..MaxRuns

\* Date.now() when the page is opened, in ms
UiStart == 100000

\* minInterval, DetectionResults.tsx:407
minInterval == 2000

\* the clock advances by one of these, in ms
UiSteps == {1, 1998}

ThrottleMsg == "Please wait a moment before making another request"
JobErrorMsg == "Failed to create detection job"
DetectErrorMsg == "Failed to detect text"
FetchErrorMsg == "fetchError.message"
NetworkErrorMsg == "Failed to fetch"

\* result.error of an error response of the function: absent or a message
ResultErrors == {Null, "Internal server error"}

\* the numbers of rows a read of detected_text can return
RowCounts == 0..(MaxAnn + 1)

\* a button and an uploader that are never disabled
NeverDisabled(isDetecting) == FALSE

\* disabled={detecting}, on the uploader and on the detect button
Disabled(isDetecting) == isDetecting

\* no throttle: every invocation is accepted
NeverThrottled(nowMs, last) == FALSE

\* now - lastRequestTime < minInterval
Throttled(nowMs, last) == nowMs - last < minInterval

\* individualDetections: the rows after the first, which holds the full text
IndividualDetections(n) == IF n > 1 THEN n - 1 ELSE 0

\* what the results panel shows
ResultsPanel(isDetecting, n, job) ==
  IF isDetecting THEN "Analyzing image"
  ELSE IF n > 0 \/ (job # 0 /\ ~isDetecting)
         THEN IF IndividualDetections(n) = 0
                THEN "No text detected in the image"
                ELSE "Detected Text"
         ELSE "Upload an image to see detection results"

\* the runs of handleDetectText that await an answer
InFlight(p) == {u \in Runs : p[u] \in {"insert", "fetch", "select"}}

\* ------------------------------------------------------------ OCR server
SrvReqs == 1..MaxSrvReq

\* `ocr-${Date.now()}.png`: one path per value of the clock
Paths == 0..MaxSrvTicks

\* imagePath = ''
NoPath == -1

\* no file at a path; a file is the request that created it and the image
\* it holds
NoFile == [creator |-> 0, content |-> 0]

\* the bytes a failed write may leave behind
Partial == -1

\* the text of an image: request q sends an image whose text is q, or a
\* blank image, whose text is empty
NoText == 0
ImageOf(q, sent) == IF sent = "blank" THEN NoText ELSE q

\* tesseract.recognize on an image: its text; nothing readable in a partial
\* file
Recognize(content) == IF content = Partial THEN NoText ELSE content

NoSrvResponse == [status |-> 0, text |-> NoText]

\* writeFile: creates the file or replaces the content of the one there
WriteFile(fs, p, q, content) ==
  [fs EXCEPT ![p] = [creator |-> IF fs[p] = NoFile THEN q ELSE fs[p].creator,
                     content |-> content]]

\* a caller's statement to the store: none yet
NoAccess == [role |-> "none", uid |-> 0, op |-> "none"]

VARIABLES
  variant,          \* which handler file is deployed
  gcpApiKey,        \* Deno.env GCP_VISION_API_KEY is set
  storeFaulty,      \* job reads and status writes may return an error
  now,              \* wall clock
  detection_jobs,   \* table detection_jobs, by id
  detected_text,    \* table detected_text: by job_id, the rows in insertion order
  pc,               \* per request: the store access the handler does next
  body,             \* per request: the parsed request body
  bodyUsed,         \* per request: req's body stream has been consumed
  ts,               \* per request: time of the handler's previous step
  textAnnotations,  \* per request: number of annotations the backend returned
  i,                \* per request: index of the next annotation to insert
  detectedTexts,    \* per request: rows returned by its inserts
  response,         \* per request: the Response the handler returns
  ocrCalls,         \* per job id: outbound OCR requests issued
  statusAtCall,     \* per request: the job's status when the request arrived
  mutated,          \* per request: a store write of the request took effect
  vertices,         \* boundingPoly.vertices of an annotation of the Vision answer
  bounding_box,     \* column bounding_box of the row stored for that annotation
  readBox,          \* bounding_box of that row as the client reads it
  user_id,          \* column user_id of detection_jobs, by id (0 is NULL)
  access,           \* the last writing statement a caller sent to the store
  deleted,          \* the deletes of jobs: the id, and how many rows went with it
  annotationConfidence, \* confidence of an annotation of the Vision answer
  confidence,       \* column confidence of the row stored for that annotation
  imageData,        \* client: an image is selected
  detecting,        \* client: state detecting
  error,            \* client: state error
  detections,       \* client: state detections (number of rows)
  jobId,            \* client: state jobId (0 is null)
  lastRequestTime,  \* client: state lastRequestTime
  uiNow,            \* client: Date.now()
  uiTicks,          \* client: how often the clock has advanced
  runPc,            \* client, per run of handleDetectText: the call it awaits
  runJob,           \* client, per run: job.id
  reading,          \* client: a FileReader is reading a chosen file
  uiOp,             \* client: the callback that ran last
  jobsCreated,      \* client: inserts into detection_jobs sent
  requestsSent,     \* client: requests sent to the function
  srvNow,           \* OCR server: Date.now()
  files,            \* OCR server: the temp directory, by path
  srvPc,            \* OCR server, per request: the call it awaits
  srvBody,          \* OCR server, per request: the image sent
  imagePath,        \* OCR server, per request: imagePath
  cleanupRequired,  \* OCR server, per request: cleanupRequired
  ocrResult,        \* OCR server, per request: ocrResult
  caught,           \* OCR server, per request: the catch block was entered
  srvResponse       \* OCR server, per request: the response sent

vars == << variant, gcpApiKey, storeFaulty, now, detection_jobs, detected_text,
           pc, body, bodyUsed, ts, textAnnotations, i, detectedTexts,
           response, ocrCalls, statusAtCall, mutated, vertices, bounding_box,
           readBox, user_id, access, deleted, annotationConfidence,
           confidence, imageData, detecting, error, detections, jobId,
           lastRequestTime, uiNow, uiTicks, runPc, runJob, reading, uiOp,
           jobsCreated, requestsSent, srvNow, files, srvPc, srvBody,
           imagePath, cleanupRequired, ocrResult, caught, srvResponse >>

\* the confidence of one annotation and of its row
confVars == << annotationConfidence, confidence >>

\* the state of the client (App in DetectionResults.tsx:388-470)
uiVars == << imageData, detecting, error, detections, jobId, lastRequestTime,
             uiNow, uiTicks, runPc, runJob, reading, uiOp, jobsCreated,
             requestsSent >>

\* the state outside the store and the handler
\* the state of the local OCR example server (part_001:1-153)
srvVars == << srvNow, files, srvPc, srvBody, imagePath, cleanupRequired,
              ocrResult, caught, srvResponse >>

extraVars == << confVars, uiVars, srvVars >>

\* the state that the handler's steps on a job do not touch
sideVars == << vertices, bounding_box, readBox, user_id, access, deleted,
               extraVars >>

reqVars == << pc, body, bodyUsed, ts, textAnnotations, i, detectedTexts,
              response, statusAtCall, mutated >>

\* ------------------------------------------------------ store operations

Exists(jobs, j) == j \in JobIds /\ jobs[j] # NoJob

StatusOf(jobs, j) == IF Exists(jobs, j) THEN jobs[j].status ELSE "absent"

\* client: insert({image_url, status: 'pending'}); the columns created_at
\* and updated_at default to now(), error_message to NULL
InsertJob(jobs, j, t) ==
  [jobs EXCEPT ![j] = [status |-> "pending", created_at |-> t,
                       updated_at |-> t, error_message |-> Null]]

\* an update that is lost
UpdateStatusLost(jobs, j, st, t) == jobs

\* UpdateStatus without the .eq("id", jobId) filter: every job is updated
UpdateStatusOfAll(jobs, j, st, t) ==
  [k \in JobIds |->
     IF Exists(jobs, k) THEN [jobs[k] EXCEPT !.status = st, !.updated_at = t]
                        ELSE jobs[k]]

\* .update({status, updated_at}).eq("id", jobId): rows that do not exist are
\* not touched, columns not named keep their value
UpdateStatus(jobs, j, st, t) ==
  IF Exists(jobs, j)
    THEN [jobs EXCEPT ![j].status = st, ![j].updated_at = t]
    ELSE jobs

\* UpdateFailed with the error_message column left out of the update
UpdateFailedWithoutMessage(jobs, j, msg, t) == UpdateStatus(jobs, j, "failed", t)

\* .update({status: "failed", error_message, updated_at}).eq("id", jobId)
UpdateFailed(jobs, j, msg, t) ==
  IF Exists(jobs, j)
    THEN [jobs EXCEPT ![j].status = "failed", ![j].error_message = msg,
                      ![j].updated_at = t]
    ELSE jobs

\* row built from annotation k (1-based; annotation 1 is the full text);
\* the handler does not name created_at, the column defaults to now()
DetectionRow(j, k, t) == [job_id |-> j, text_content |-> k, created_at |-> t]

\* an insert that replaces what the table holds
InsertDetectionsReplacing(rows, new) ==
  [j \in JobIds |-> SelectSeq(new, LAMBDA row : row.job_id = j)]

\* .from("detected_text").insert(...): the new rows are added to the table,
\* each behind the rows with its job_id
InsertDetections(rows, new) ==
  [j \in JobIds |-> rows[j] \o SelectSeq(new, LAMBDA row : row.job_id = j)]

\* now() of an insert statement into detected_text, at the resolution of the
\* store's clock: the rows of one statement share it, and a later statement
\* gets a later one. Measured in the rows of the job stored so far (no code
\* compares the created_at of rows of different jobs).
\* a delete of job j that leaves the job's rows in detected_text
DeleteWithoutCascade(rows, j) == rows

\* job_id REFERENCES detection_jobs(id) ON DELETE CASCADE: the delete of job
\* j deletes the rows of detected_text with job_id = j
DeleteCascade(rows, j) == [rows EXCEPT ![j] = <<>>]

InsertTime(rows) == Len(rows)

\* select('*').eq('job_id', j)
RowsOf(rows, j) == IF j \in JobIds THEN rows[j] ELSE <<>>

\* ------------------------------------------------------------ validation

\* number of bytes a base64 text decodes to: three for every four characters
\* that are not padding
DecodedLength(b64) == ((b64.len - b64.pad) * 3) \div 4

\* index.ts:58  sizeInBytes = (base64Data.length * 3) / 4, compared in
\* fourths to stay in the integers
TooLarge(b64) == b64.len * 3 > maxSize * 4

\* !imageUrl && !imageBase64 (index.ts:45, and the else of part_001:265-271)
NoPayload(b) == ~b.imageUrl /\ b.imageBase64.len = 0

\* index.ts:35-81: Null when the request passes, else the error text of the
\* 400 response
ValidateIndex(b) ==
  IF b.jobId = 0 \/ b.jobId = NonString THEN "Valid Job ID is required"
  ELSE IF NoPayload(b)
    THEN PayloadMsg
  ELSE IF b.imageBase64.len > 0 /\ TooLarge(b.imageBase64)
    THEN "Image size exceeds 10MB limit"
  ELSE IF b.imageBase64.len > 0 /\ ~b.imageBase64.ok
    THEN "Invalid base64 image format"
  ELSE Null

\* part_001:187-195: if (!jobId)
ValidatePart(b) == IF b.jobId = 0 THEN "Job ID is required" ELSE Null

Validate(b) == IF variant = "index" THEN ValidateIndex(b) ELSE ValidatePart(b)

\* part_001:393-395: the catch block reads the request body again; the body
\* stream was consumed by req.json(), so req.text() rejects and the
\* .catch(() => null) leaves no job id
CatchFailedJobId(r) == IF bodyUsed[r] THEN 0 ELSE body[r].jobId

ErrorResponse(code, msg) ==
  [status |-> code, error |-> msg, detections |-> <<>>, count |-> 0]

\* a success response that leaves out the first row
SuccessResponseWithoutFirst(rows) ==
  [status |-> 200, error |-> Null,
   detections |-> IF rows = <<>> THEN rows ELSE Tail(rows), count |-> Len(rows)]

\* index.ts:238-248, part_001:373-383: detections is the list of the rows
\* the inserts returned, and the message names its length
SuccessResponse(rows) ==
  [status |-> 200, error |-> Null, detections |-> rows, count |-> Len(rows)]

\* ------------------------------------------------------------------ Init

\* a deployment with empty tables and no request handled yet
InitEmpty ==
  /\ variant \in {"index", "part_001"}
  /\ gcpApiKey \in BOOLEAN
  /\ now = 0
  /\ detection_jobs = [j \in JobIds |-> NoJob]
  /\ detected_text = [j \in JobIds |-> <<>>]
  /\ pc = [r \in Reqs |-> "idle"]
  /\ bodyUsed = [r \in Reqs |-> FALSE]
  /\ ts = [r \in Reqs |-> 0]
  /\ textAnnotations = [r \in Reqs |-> 0]
  /\ i = [r \in Reqs |-> 0]
  /\ detectedTexts = [r \in Reqs |-> <<>>]
  /\ response = [r \in Reqs |-> NoResponse]
  /\ ocrCalls = [j \in JobIds |-> 0]
  /\ statusAtCall = [r \in Reqs |-> "absent"]
  /\ mutated = [r \in Reqs |-> FALSE]

\* no confidence is followed
InitConfidence ==
  /\ annotationConfidence = Absent
  /\ confidence = NotStored

\* the client as it is mounted (DetectionResults.tsx:389-394); Date.now() is
\* UiStart
InitUi ==
  /\ imageData = FALSE
  /\ detecting = FALSE
  /\ error = Null
  /\ detections = 0
  /\ jobId = 0
  /\ lastRequestTime = 0
  /\ uiNow = UiStart
  /\ uiTicks = 0
  /\ runPc = [u \in Runs |-> "idle"]
  /\ runJob = [u \in Runs |-> 0]
  /\ reading = FALSE
  /\ uiOp = "none"
  /\ jobsCreated = 0
  /\ requestsSent = 0

\* the OCR server as it starts listening: no request, no temp file
InitSrv ==
  /\ srvNow = 0
  /\ files = [p \in Paths |-> NoFile]
  /\ srvPc = [q \in SrvReqs |-> "new"]
  /\ srvBody = [q \in SrvReqs |-> "none"]
  /\ imagePath = [q \in SrvReqs |-> NoPath]
  /\ cleanupRequired = [q \in SrvReqs |-> FALSE]
  /\ ocrResult = [q \in SrvReqs |-> NoText]
  /\ caught = [q \in SrvReqs |-> FALSE]
  /\ srvResponse = [q \in SrvReqs |-> NoSrvResponse]

InitExtra == InitConfidence /\ InitUi /\ InitSrv

\* no annotation is followed, nobody owns a job, no caller has addressed the
\* store itself
InitIdle ==
  /\ vertices = NoJson
  /\ bounding_box = NoJson
  /\ readBox = NoJson
  /\ user_id = [j \in JobIds |-> 0]
  /\ access = NoAccess
  /\ deleted = {}
  /\ InitExtra

Init ==
  /\ InitEmpty
  /\ InitIdle
  /\ storeFaulty = FALSE
  /\ body = [r \in Reqs |-> NoBody]

\* --------------------------------------------------------------- actions
\* The steps of one handler invocation are cut at its store accesses: an
\* action is one store access taking effect, together with the local code
\* that runs before it since the previous access (or since the request
\* arrived) and the outbound fetch that code issues.  The arrival of the
\* request and of the Vision response are not visible to other requests,
\* so they are part of the action of the store access that follows them.

JobOf(r) == body[r].jobId

\* outcomes of a job read or a status write: the store answers, or (faulty
\* store) returns an error the handler gets back in {error}
StoreOutcomes == IF storeFaulty THEN BOOLEAN ELSE {TRUE}

\* new Date() of an update: taken between the request's previous step and
\* the moment the update takes effect
Stamps(r) == ts[r]..now

\* ids of the jobs that were deleted
DeletedIds == { d.id : d \in deleted }

\* client, DetectionResults.tsx:419-426. The id is generated by the store
\* (gen_random_uuid), so no request can have named it before; ids are handed
\* out in order.
CreateJob(j) ==
  /\ detection_jobs[j] = NoJob
  /\ \A k \in JobIds : k < j => (detection_jobs[k] # NoJob \/ k \in DeletedIds)
  /\ j \notin DeletedIds
  /\ \A r \in Reqs : pc[r] = "idle" \/ body[r].jobId # j
  /\ detection_jobs' = InsertJob(detection_jobs, j, now)
  /\ UNCHANGED << sideVars, variant, gcpApiKey, storeFaulty, now, detected_text,
                  ocrCalls, reqVars >>

Tick ==
  /\ now < MaxNow
  /\ now' = now + 1
  /\ UNCHANGED << sideVars, variant, gcpApiKey, storeFaulty, detection_jobs,
                  detected_text, ocrCalls, reqVars >>

\* the handler returns `resp`; its locals are gone
Return(r, resp) ==
  /\ response' = [response EXCEPT ![r] = resp]
  /\ pc' = [pc EXCEPT ![r] = "done"]
  /\ textAnnotations' = [textAnnotations EXCEPT ![r] = 0]
  /\ i' = [i EXCEPT ![r] = 0]
  /\ detectedTexts' = [detectedTexts EXCEPT ![r] = <<>>]

\* the handler goes on to its next store access, awaited at `label`
Await(r, label) ==
  /\ pc' = [pc EXCEPT ![r] = label]
  /\ UNCHANGED response

\* catch block. index.ts:250-262 only builds the 500 response.
\* part_001:385-420 first tries to mark the job failed, for the job id it
\* can still read from the request.
CatchJobs(jobs, r, msg, t) ==
  IF variant = "part_001" /\ CatchFailedJobId(r) # 0
    THEN UpdateFailed(jobs, CatchFailedJobId(r), msg, t)
    ELSE jobs

CatchWrites(r) ==
  variant = "part_001" /\ CatchFailedJobId(r) # 0
    /\ Exists(detection_jobs, CatchFailedJobId(r))

\* index.ts:83-142, part_001:234-293: the update to processing takes effect
\* (its result is not looked at); then the key check, the choice of the
\* image content, and the fetch to the Vision API is issued
Process(r, b, t) ==
  \E ok \in StoreOutcomes :
    LET jobs1 == IF ok THEN UpdateStatus(detection_jobs, b.jobId, "processing", t)
                       ELSE detection_jobs
        wrote == ok /\ Exists(detection_jobs, b.jobId)
    IN
    IF ~gcpApiKey
      THEN /\ detection_jobs' = jobs1
           /\ mutated' = [mutated EXCEPT ![r] = @ \/ wrote]
           /\ Await(r, "setFailedNoKey")
           /\ UNCHANGED << ocrCalls, textAnnotations, i, detectedTexts >>
    ELSE IF NoPayload(b)
      THEN /\ detection_jobs' = CatchJobs(jobs1, r, PayloadMsg, now)
           /\ mutated' = [mutated EXCEPT ![r] = @ \/ wrote \/ CatchWrites(r)]
           /\ Return(r, ErrorResponse(500, PayloadMsg))
           /\ UNCHANGED ocrCalls
    ELSE /\ detection_jobs' = jobs1
         /\ mutated' = [mutated EXCEPT ![r] = @ \/ wrote]
         /\ ocrCalls' = [ocrCalls EXCEPT ![b.jobId] = @ + 1]
         /\ Await(r, "vision")
         /\ UNCHANGED << textAnnotations, i, detectedTexts >>

\* part_001:197-232: select id,status; not found -> 404, not pending -> 409.
\* The id column is a uuid: .eq("id", jobId) with a jobId that is not a
\* string makes the query fail, which the handler gets back as an error.
FetchJob(r, b) ==
  \E ok \in StoreOutcomes :
    IF ~ok \/ b.jobId = NonString THEN Return(r, ErrorResponse(500, "Failed to fetch job"))
    ELSE IF ~Exists(detection_jobs, b.jobId)
      THEN Return(r, ErrorResponse(404, "Job not found"))
    ELSE IF detection_jobs[b.jobId].status # "pending"
      THEN Return(r, ErrorResponse(409, "Job is not pending"))
    ELSE /\ Await(r, "setProcessing")
         /\ UNCHANGED << textAnnotations, i, detectedTexts >>

\* a request arrives: req.json(), the checks that need no I/O, and the
\* first store access: index.ts:32-142 (the update to processing),
\* part_001:185-232 (the job fetch)
ReceiveFrom(r, bodies) ==
  /\ pc[r] = "idle"
  /\ \A q \in Reqs : q < r => pc[q] # "idle"
  /\ \E b \in bodies :
       /\ body' = [body EXCEPT ![r] = b]
       /\ bodyUsed' = [bodyUsed EXCEPT ![r] = TRUE]
       /\ statusAtCall' = [statusAtCall EXCEPT ![r] = StatusOf(detection_jobs, b.jobId)]
       /\ IF Validate(b) # Null
            THEN /\ Return(r, ErrorResponse(400, Validate(b)))
                 /\ UNCHANGED << detection_jobs, ocrCalls, mutated >>
          ELSE IF variant = "index"
            THEN Process(r, b, now)
          ELSE /\ FetchJob(r, b)
               /\ UNCHANGED << detection_jobs, ocrCalls, mutated >>
  /\ ts' = [ts EXCEPT ![r] = now]
  /\ UNCHANGED << sideVars, variant, gcpApiKey, storeFaulty, now, detected_text >>

\* a request of any caller
Receive(r) == ReceiveFrom(r, Bodies)

\* part_001:234-293
SetProcessing(r) ==
  /\ pc[r] = "setProcessing"
  /\ \E t \in Stamps(r) : Process(r, body[r], t)
  /\ ts' = [ts EXCEPT ![r] = now]
  /\ UNCHANGED << sideVars, variant, gcpApiKey, storeFaulty, now, detected_text, body,
                  bodyUsed, statusAtCall >>

\* index.ts:93-110, part_001:244-261
SetFailedNoKey(r) ==
  /\ pc[r] = "setFailedNoKey"
  /\ \E ok \in StoreOutcomes, t \in Stamps(r) :
       /\ detection_jobs' = IF ok THEN UpdateFailed(detection_jobs, JobOf(r), KeyMsg, t)
                                  ELSE detection_jobs
       /\ mutated' = [mutated EXCEPT ![r] = @ \/ (ok /\ Exists(detection_jobs, JobOf(r)))]
  /\ Return(r, ErrorResponse(500, KeyResponseMsg))
  /\ ts' = [ts EXCEPT ![r] = now]
  /\ UNCHANGED << sideVars, variant, gcpApiKey, storeFaulty, now, detected_text,
                  ocrCalls, body, bodyUsed, statusAtCall >>

VisionErrors == {TransportMsg, VisionMsg, MalformedMsg}

\* an insert into detected_text can succeed only if the job row exists
\* (job_id REFERENCES detection_jobs(id)); it may fail for any insert
InsertOutcomes(j) == IF Exists(detection_jobs, j) THEN BOOLEAN ELSE {FALSE}

\* index.ts:183-227: the insert of annotation k (the full text is k = 1);
\* an insert error is logged and the handler goes on
InsertOne(r, k, n) ==
  \E ok \in InsertOutcomes(JobOf(r)) :
    LET at == InsertTime(RowsOf(detected_text, JobOf(r)))
        row == DetectionRow(JobOf(r), k, at)
    IN
    /\ detected_text' = IF ok THEN InsertDetections(detected_text, <<row>>)
                              ELSE detected_text
    /\ detectedTexts' = [detectedTexts EXCEPT ![r] = IF ok THEN Append(@, row) ELSE @]
    /\ mutated' = [mutated EXCEPT ![r] = @ \/ ok]
    /\ textAnnotations' = [textAnnotations EXCEPT ![r] = n]
    /\ i' = [i EXCEPT ![r] = k + 1]
    /\ Await(r, IF k < n THEN "insert" ELSE "setCompleted")

\* part_001:326-342: one insert of all rows
InsertAll(r, n) ==
  \E ok \in InsertOutcomes(JobOf(r)) :
    LET at == InsertTime(RowsOf(detected_text, JobOf(r)))
        rows == [k \in 1..n |-> DetectionRow(JobOf(r), k, at)]
    IN
    /\ detected_text' = IF ok THEN InsertDetections(detected_text, rows)
                              ELSE detected_text
    /\ detectedTexts' = [detectedTexts EXCEPT ![r] = IF ok THEN rows ELSE @]
    /\ mutated' = [mutated EXCEPT ![r] = @ \/ ok]
    /\ textAnnotations' = [textAnnotations EXCEPT ![r] = n]
    /\ i' = i
    /\ Await(r, IF ok THEN "setCompleted" ELSE "setFailedInsert")

\* index.ts:124-147 and 250-262, part_001:275-298 and 385-420: the fetch
\* rejects, or answers non-2xx, or with a body without responses
VisionFails(r) ==
  \E msg \in VisionErrors :
    /\ detection_jobs' = CatchJobs(detection_jobs, r, msg, now)
    /\ mutated' = [mutated EXCEPT ![r] = @ \/ CatchWrites(r)]
    /\ Return(r, ErrorResponse(500, msg))
    /\ UNCHANGED detected_text

\* index.ts:149-173, part_001:300-324: the backend answers with no
\* annotation; the job is set completed
VisionEmpty(r) ==
  \E ok \in StoreOutcomes, t \in Stamps(r) :
    /\ detection_jobs' = IF ok THEN UpdateStatus(detection_jobs, JobOf(r), "completed", t)
                               ELSE detection_jobs
    /\ mutated' = [mutated EXCEPT ![r] = @ \/ (ok /\ Exists(detection_jobs, JobOf(r)))]
    /\ Return(r, SuccessResponse(<<>>))
    /\ UNCHANGED detected_text

\* index.ts:175-201, part_001:326-342: the backend answers with n >= 1
\* annotations; the first insert is done
VisionText(r) ==
  \E n \in 1..MaxAnn :
    /\ IF variant = "index" THEN InsertOne(r, 1, n) ELSE InsertAll(r, n)
    /\ UNCHANGED detection_jobs

\* the answer of the Vision API arrives
Vision(r) ==
  /\ pc[r] = "vision"
  /\ VisionFails(r) \/ VisionEmpty(r) \/ VisionText(r)
  /\ ts' = [ts EXCEPT ![r] = now]
  /\ UNCHANGED << sideVars, variant, gcpApiKey, storeFaulty, now, ocrCalls, body,
                  bodyUsed, statusAtCall >>

\* index.ts:204-227
InsertRow(r) ==
  /\ pc[r] = "insert"
  /\ InsertOne(r, i[r], textAnnotations[r])
  /\ ts' = [ts EXCEPT ![r] = now]
  /\ UNCHANGED << sideVars, variant, gcpApiKey, storeFaulty, now, detection_jobs,
                  ocrCalls, body, bodyUsed, statusAtCall >>

\* part_001:344-362
SetFailedInsert(r) ==
  /\ pc[r] = "setFailedInsert"
  /\ \E ok \in StoreOutcomes, t \in Stamps(r) :
       /\ detection_jobs' = IF ok THEN UpdateFailed(detection_jobs, JobOf(r), StoreMsg, t)
                                  ELSE detection_jobs
       /\ mutated' = [mutated EXCEPT ![r] = @ \/ (ok /\ Exists(detection_jobs, JobOf(r)))]
  /\ Return(r, ErrorResponse(500, StoreMsg))
  /\ ts' = [ts EXCEPT ![r] = now]
  /\ UNCHANGED << sideVars, variant, gcpApiKey, storeFaulty, now, detected_text,
                  ocrCalls, body, bodyUsed, statusAtCall >>

\* index.ts:229-248, part_001:364-383
SetCompleted(r) ==
  /\ pc[r] = "setCompleted"
  /\ \E ok \in StoreOutcomes, t \in Stamps(r) :
       /\ detection_jobs' = IF ok THEN UpdateStatus(detection_jobs, JobOf(r), "completed", t)
                                  ELSE detection_jobs
       /\ mutated' = [mutated EXCEPT ![r] = @ \/ (ok /\ Exists(detection_jobs, JobOf(r)))]
  /\ Return(r, SuccessResponse(detectedTexts[r]))
  /\ ts' = [ts EXCEPT ![r] = now]
  /\ UNCHANGED << sideVars, variant, gcpApiKey, storeFaulty, now, detected_text,
                  ocrCalls, body, bodyUsed, statusAtCall >>

Next ==
  \/ \E j \in JobIds : CreateJob(j)
  \/ \E r \in Reqs : Receive(r)
  \/ \E r \in Reqs : SetProcessing(r)
  \/ \E r \in Reqs : SetFailedNoKey(r)
  \/ \E r \in Reqs : Vision(r)
  \/ \E r \in Reqs : InsertRow(r)
  \/ \E r \in Reqs : SetFailedInsert(r)
  \/ \E r \in Reqs : SetCompleted(r)

Spec == Init /\ [][Next]_vars

\* the same with the wall clock advancing
SpecTime == Init /\ [][Next \/ Tick]_vars

\* the deployment without GCP_VISION_API_KEY: the steps after the key check
\* are never reached (C10_MissingKey states so), which leaves these actions
NextNoKey ==
  \/ \E j \in JobIds : CreateJob(j)
  \/ \E r \in Reqs : Receive(r)
  \/ \E r \in Reqs : SetProcessing(r)
  \/ \E r \in Reqs : SetFailedNoKey(r)

InitNoKey == Init /\ ~gcpApiKey

SpecNoKey == InitNoKey /\ [][NextNoKey]_vars

\* the deployment with the key set, called with images in which the backend
\* finds no text: the Vision API fails or answers with no annotation
VisionNoText(r) ==
  /\ pc[r] = "vision"
  /\ VisionFails(r) \/ VisionEmpty(r)
  /\ ts' = [ts EXCEPT ![r] = now]
  /\ UNCHANGED << sideVars, variant, gcpApiKey, storeFaulty, now, ocrCalls, body,
                  bodyUsed, statusAtCall >>

\* requests that carry what index.ts:34-81 accepts
ImageBodies == { b \in Bodies : ValidateIndex(b) = Null }

ReceiveImage(r) == ReceiveFrom(r, ImageBodies)

NextNoText ==
  \/ \E j \in JobIds : CreateJob(j)
  \/ \E r \in Reqs : ReceiveImage(r)
  \/ \E r \in Reqs : SetProcessing(r)
  \/ \E r \in Reqs : VisionNoText(r)

InitNoText == Init /\ gcpApiKey

SpecNoText == InitNoText /\ [][NextNoText]_vars

\* The callers are shipped clients (DetectionResults.tsx:402-470): a client
\* inserts a job and calls the function once, for that job, with the data
\* URL of the file it accepted (here a file of 6 bytes) as imageBase64.
\* Several clients run at the same time, each on its own job.
ClientBodies ==
  { b \in Bodies :
      /\ ~b.imageUrl /\ b.imageBase64 = DataURL(6)
      /\ Exists(detection_jobs, b.jobId)
      /\ \A q \in Reqs : pc[q] = "idle" \/ JobOf(q) # b.jobId }

Invoke(r) == ReceiveFrom(r, ClientBodies)

NextClients ==
  \/ \E j \in JobIds : CreateJob(j)
  \/ \E r \in Reqs : Invoke(r)
  \/ \E r \in Reqs : SetProcessing(r)
  \/ \E r \in Reqs : SetFailedNoKey(r)
  \/ \E r \in Reqs : Vision(r)
  \/ \E r \in Reqs : InsertRow(r)
  \/ \E r \in Reqs : SetFailedInsert(r)
  \/ \E r \in Reqs : SetCompleted(r)

SpecClients == Init /\ [][NextClients]_vars

\* the same handler on a store whose reads and status writes may return an
\* error instead of taking effect
InitFaulty ==
  /\ InitEmpty
  /\ InitIdle
  /\ storeFaulty = TRUE
  /\ body = [r \in Reqs |-> NoBody]

SpecFaulty == InitFaulty /\ [][Next]_vars

\* The validation of index.ts as a function of the request body, applied to
\* requests that carry an uploaded file: index.ts:34-81
ValidateRequest(r) ==
  /\ pc[r] = "idle"
  /\ IF ValidateIndex(body[r]) # Null
       THEN Return(r, ErrorResponse(400, ValidateIndex(body[r])))
       ELSE /\ Await(r, "validated")
            /\ UNCHANGED << textAnnotations, i, detectedTexts >>
  /\ UNCHANGED << sideVars, variant, gcpApiKey, storeFaulty, now, detection_jobs,
                  detected_text, body, bodyUsed, ts, ocrCalls, statusAtCall,
                  mutated >>

InitSize ==
  /\ InitEmpty
  /\ InitIdle
  /\ variant = "index"
  /\ storeFaulty = FALSE
  /\ body \in [Reqs -> SizedBodies]

NextSize == \E r \in Reqs : ValidateRequest(r)

SpecSize == InitSize /\ [][NextSize]_vars

\* The bounding box of one annotation, from the Vision answer to the client:
\* the handler inserts the row, the client selects it.
InsertBox ==
  /\ vertices # NoJson /\ bounding_box = NoJson
  /\ bounding_box' = StoreJsonb(BoundingBoxOf(variant, vertices))
  /\ UNCHANGED << extraVars, variant, gcpApiKey, storeFaulty, now, detection_jobs,
                  detected_text, ocrCalls, reqVars, vertices, readBox,
                  user_id, access, deleted >>

SelectBox ==
  /\ bounding_box # NoJson /\ readBox = NoJson
  /\ readBox' = SelectJsonb(bounding_box)
  /\ UNCHANGED << extraVars, variant, gcpApiKey, storeFaulty, now, detection_jobs,
                  detected_text, ocrCalls, reqVars, vertices, bounding_box,
                  user_id, access, deleted >>

InitBox ==
  /\ InitEmpty
  /\ gcpApiKey
  /\ storeFaulty = FALSE
  /\ body = [r \in Reqs |-> NoBody]
  /\ vertices \in Vertices
  /\ bounding_box = NoJson
  /\ readBox = NoJson
  /\ user_id = [j \in JobIds |-> 0]
  /\ access = NoAccess
  /\ deleted = {}
  /\ InitExtra

NextBox == InsertBox \/ SelectBox

SpecBox == InitBox /\ [][NextBox]_vars

\* ------------------------------------------------ row level security
\* A caller of the store: the role of its key or token and auth.uid()
\* (0 is NULL). The handler's client has the service role (index.ts:26-29).
Callers ==
  {[role |-> "anon", uid |-> 0], [role |-> "service_role", uid |-> 0]}
    \cup { [role |-> "authenticated", uid |-> u] : u \in 1..MaxUsers }

Users == { c \in Callers : c.role # "service_role" }

\* a select policy that shows every job to every caller
EveryoneViewsAllJobs(c, owner) == c.role \in {"anon", "authenticated"}

\* "Anyone can create detection jobs": INSERT TO anon, authenticated
\* WITH CHECK (true)
AnyoneCanCreateJobs(c, owner) == c.role \in {"anon", "authenticated"}

\* "Users can view own or anonymous jobs": SELECT TO anon, authenticated
\* USING (user_id IS NULL OR user_id = auth.uid()); a comparison with a NULL
\* auth.uid() is not true
UsersCanViewOwnOrAnonymousJobs(c, owner) ==
  /\ c.role \in {"anon", "authenticated"}
  /\ owner = 0 \/ (c.uid # 0 /\ owner = c.uid)

\* "Users can update own jobs": UPDATE TO authenticated
\* USING (user_id = auth.uid()) WITH CHECK (user_id = auth.uid())
UsersCanUpdateOwnJobs(c, owner) ==
  c.role = "authenticated" /\ c.uid # 0 /\ owner = c.uid

\* "Service role can update any job": UPDATE TO service_role USING (true)
ServiceRoleCanUpdateAnyJob(c) == c.role = "service_role"

\* the update policies together: the old row passes USING, the new row
\* passes WITH CHECK
MayUpdateJob(c, owner, newOwner) ==
  \/ ServiceRoleCanUpdateAnyJob(c)
  \/ UsersCanUpdateOwnJobs(c, owner) /\ UsersCanUpdateOwnJobs(c, newOwner)

\* "Users can view text for accessible jobs": SELECT TO anon, authenticated
\* USING (EXISTS (SELECT 1 FROM detection_jobs WHERE id = job_id AND
\* (user_id IS NULL OR user_id = auth.uid())))
UsersCanViewTextForAccessibleJobs(c, j) ==
  /\ c.role \in {"anon", "authenticated"}
  /\ Exists(detection_jobs, j)
  /\ user_id[j] = 0 \/ (c.uid # 0 /\ user_id[j] = c.uid)

\* an insert policy on detected_text that admits every role
EveryoneInsertsDetectedText(c) == TRUE

\* "Service role can insert detected text": INSERT TO service_role
\* WITH CHECK (true)
ServiceRoleCanInsertDetectedText(c) == c.role = "service_role"

\* a job row as a statement returns it
JobRow(j) == [id |-> j, user_id |-> user_id[j]]

Statement(c, op) == [role |-> c.role, uid |-> c.uid, op |-> op]

\* a caller inserts a job, with the user_id it chooses
CreateJobAs(c, j, u) ==
  /\ AnyoneCanCreateJobs(c, u)
  /\ detection_jobs[j] = NoJob
  /\ \A k \in JobIds : k < j => (detection_jobs[k] # NoJob \/ k \in DeletedIds)
  /\ j \notin DeletedIds
  /\ detection_jobs' = InsertJob(detection_jobs, j, now)
  /\ user_id' = [user_id EXCEPT ![j] = u]
  /\ access' = Statement(c, "insert_job")
  /\ UNCHANGED << extraVars, variant, gcpApiKey, storeFaulty, now, detected_text,
                  ocrCalls, reqVars, vertices, bounding_box, readBox, deleted >>

\* select * from detection_jobs, sent by caller c: the rows it returns
SelectJobs(c) ==
  { JobRow(j) : j \in { k \in JobIds :
      /\ Exists(detection_jobs, k)
      /\ UsersCanViewOwnOrAnonymousJobs(c, user_id[k]) } }

\* select * from detected_text where job_id = j, sent by caller c
SelectText(c, j) ==
  IF UsersCanViewTextForAccessibleJobs(c, j) THEN RowsOf(detected_text, j)
                                             ELSE <<>>

\* update detection_jobs set status = st, user_id = u where id = j; the
\* handler's updates (service role) do not name user_id
UpdateJob(c, j, st, u) ==
  /\ c.role = "service_role" => u = user_id[j]
  /\ LET done == Exists(detection_jobs, j) /\ MayUpdateJob(c, user_id[j], u)
     IN
     /\ detection_jobs' = IF done THEN UpdateStatus(detection_jobs, j, st, now)
                                  ELSE detection_jobs
     /\ user_id' = IF done THEN [user_id EXCEPT ![j] = u] ELSE user_id
     /\ access' = Statement(c, "update_job")
  /\ UNCHANGED << extraVars, variant, gcpApiKey, storeFaulty, now, detected_text,
                  ocrCalls, reqVars, vertices, bounding_box, readBox, deleted >>

\* insert into detected_text (job_id, ...) values (j, ...). The service
\* role's statement is the handler's insert for a job (part_001:339-342),
\* sent for a job without rows.
InsertText(c, j) ==
  /\ ServiceRoleCanInsertDetectedText(c) => RowsOf(detected_text, j) = <<>>
  /\ LET row == DetectionRow(j, 1, InsertTime(RowsOf(detected_text, j)))
         done == ServiceRoleCanInsertDetectedText(c) /\ Exists(detection_jobs, j)
     IN detected_text' = IF done THEN InsertDetections(detected_text, <<row>>)
                                 ELSE detected_text
  /\ access' = Statement(c, "insert_text")
  /\ UNCHANGED << extraVars, variant, gcpApiKey, storeFaulty, now, detection_jobs,
                  ocrCalls, reqVars, vertices, bounding_box, readBox, user_id,
                  deleted >>

NextAccess ==
  \/ \E c \in Users, j \in JobIds, u \in 0..MaxUsers : CreateJobAs(c, j, u)
  \/ \E c \in Callers, j \in JobIds, u \in 0..MaxUsers :
       UpdateJob(c, j, "processing", u)
  \/ \E c \in Callers, j \in JobIds : InsertText(c, j)

\* the policies do not depend on the handler deployed
InitAccess == Init /\ variant = "index" /\ gcpApiKey

SpecAccess == InitAccess /\ [][NextAccess]_vars

\* delete from detection_jobs where id = j, sent by the owner of the
\* database (no policy lets another role delete); a call of the handler for
\* the job may be in flight
DeleteJob(j) ==
  /\ Exists(detection_jobs, j)
  /\ detection_jobs' = [detection_jobs EXCEPT ![j] = NoJob]
  /\ detected_text' = DeleteCascade(detected_text, j)
  /\ deleted' = deleted \cup {[id |-> j, rows |-> Len(detected_text[j])]}
  /\ UNCHANGED << extraVars, variant, gcpApiKey, storeFaulty, now, ocrCalls, reqVars,
                  vertices, bounding_box, readBox, user_id, access >>

\* the shipped clients, and jobs being deleted
NextCascade ==
  \/ NextClients
  \/ \E j \in JobIds : DeleteJob(j)

SpecCascade == Init /\ [][NextCascade]_vars

\* the statements sent to the store, deletes of jobs among them
NextStore ==
  \/ NextAccess
  \/ \E j \in JobIds : DeleteJob(j)

SpecStore == InitAccess /\ [][NextStore]_vars

\* the state of the store and the handler
backendVars == << variant, gcpApiKey, storeFaulty, now, detection_jobs,
                  detected_text, ocrCalls, reqVars, vertices, bounding_box,
                  readBox, user_id, access, deleted >>

\* The confidence of one annotation, from the Vision answer to the row.
InsertConfidence ==
  /\ confidence = NotStored
  /\ confidence' = ConfidenceOf(variant, annotationConfidence)
  /\ UNCHANGED << backendVars, annotationConfidence, uiVars, srvVars >>

InitConfidenceOf ==
  /\ InitEmpty
  /\ gcpApiKey
  /\ storeFaulty = FALSE
  /\ body = [r \in Reqs |-> NoBody]
  /\ vertices = NoJson
  /\ bounding_box = NoJson
  /\ readBox = NoJson
  /\ user_id = [j \in JobIds |-> 0]
  /\ access = NoAccess
  /\ deleted = {}
  /\ annotationConfidence \in Reported
  /\ confidence = NotStored
  /\ InitUi
  /\ InitSrv

NextConfidence == InsertConfidence

SpecConfidence == InitConfidenceOf /\ [][NextConfidence]_vars

\* type correctness of the model
\* ------------------------------------------------------ client callbacks
\* the state outside the client
notUiVars == << backendVars, confVars, srvVars >>

\* The user picks or drops a file: handleChange, handleDrop, handleFile.
HandleFile ==
  /\ ~Disabled(detecting)
  /\ ~reading
  /\ reading' = TRUE
  /\ uiOp' = "handleFile"
  /\ UNCHANGED << imageData, detecting, error, detections, jobId,
                  lastRequestTime, uiNow, uiTicks, runPc, runJob,
                  jobsCreated, requestsSent, notUiVars >>

\* The reader is done: onloadend calls handleImageSelect.
HandleImageSelect ==
  /\ reading
  /\ reading' = FALSE
  /\ imageData' = TRUE
  /\ detections' = 0
  /\ error' = Null
  /\ jobId' = 0
  /\ uiOp' = "handleImageSelect"
  /\ UNCHANGED << detecting, lastRequestTime, uiNow, uiTicks, runPc, runJob,
                  jobsCreated, requestsSent, notUiVars >>

\* The user clicks the detect button: handleDetectText up to its first
\* await. The button is there when an image is selected and works unless
\* disabled.
HandleDetectText ==
  /\ imageData
  /\ ~Disabled(detecting)
  /\ uiOp' = "handleDetectText"
  /\ IF ~imageData
       THEN UNCHANGED << error, lastRequestTime, detecting, runPc, runJob,
                         jobsCreated >>
       ELSE IF Throttled(uiNow, lastRequestTime)
         THEN /\ error' = ThrottleMsg
              /\ UNCHANGED << lastRequestTime, detecting, runPc, runJob,
                              jobsCreated >>
         ELSE /\ jobsCreated < MaxRuns
              /\ lastRequestTime' = uiNow
              /\ detecting' = TRUE
              /\ error' = Null
              /\ jobsCreated' = jobsCreated + 1
              /\ runPc' = [runPc EXCEPT ![jobsCreated + 1] = "insert"]
              /\ UNCHANGED runJob
  /\ UNCHANGED << imageData, detections, jobId, uiNow, uiTicks, reading,
                  requestsSent, notUiVars >>

\* catch and finally of handleDetectText
CatchRun(u, message) ==
  /\ error' = message
  /\ detecting' = FALSE
  /\ runPc' = [runPc EXCEPT ![u] = "failed"]

\* The insert into detection_jobs answers.
JobInserted(u) ==
  /\ runPc[u] = "insert"
  /\ uiOp' = "resumed"
  /\ \/ /\ runJob' = [runJob EXCEPT ![u] = u]
        /\ jobId' = u
        /\ requestsSent' = requestsSent + 1
        /\ runPc' = [runPc EXCEPT ![u] = "fetch"]
        /\ UNCHANGED << error, detecting >>
     \/ /\ CatchRun(u, JobErrorMsg)
        /\ UNCHANGED << runJob, jobId, requestsSent >>
  /\ UNCHANGED << imageData, detections, lastRequestTime, uiNow, uiTicks,
                  reading, jobsCreated, notUiVars >>

\* The function answers, or the request fails.
FunctionReturned(u) ==
  /\ runPc[u] = "fetch"
  /\ uiOp' = "resumed"
  /\ \/ /\ runPc' = [runPc EXCEPT ![u] = "select"]
        /\ UNCHANGED << error, detecting >>
     \/ \E e \in ResultErrors :
          CatchRun(u, IF e = Null THEN DetectErrorMsg ELSE e)
     \/ CatchRun(u, NetworkErrorMsg)
  /\ UNCHANGED << imageData, detections, jobId, lastRequestTime, uiNow,
                  uiTicks, runJob, reading, jobsCreated, requestsSent,
                  notUiVars >>

\* The read of the job's rows answers.
RowsRead(u) ==
  /\ runPc[u] = "select"
  /\ uiOp' = "resumed"
  /\ \/ \E n \in RowCounts :
          /\ detections' = n
          /\ detecting' = FALSE
          /\ runPc' = [runPc EXCEPT ![u] = "done"]
          /\ UNCHANGED error
     \/ /\ CatchRun(u, FetchErrorMsg)
        /\ UNCHANGED detections
  /\ UNCHANGED << imageData, jobId, lastRequestTime, uiNow, uiTicks, runJob,
                  reading, jobsCreated, requestsSent, notUiVars >>

\* Time passes in the browser.
UiTick ==
  /\ uiTicks < MaxUiTicks
  /\ uiTicks' = uiTicks + 1
  /\ \E d \in UiSteps : uiNow' = uiNow + d
  /\ uiOp' = "none"
  /\ UNCHANGED << imageData, detecting, error, detections, jobId,
                  lastRequestTime, runPc, runJob, reading, jobsCreated,
                  requestsSent, notUiVars >>

NextUi ==
  \/ HandleFile
  \/ HandleImageSelect
  \/ HandleDetectText
  \/ \E u \in Runs : JobInserted(u)
  \/ \E u \in Runs : FunctionReturned(u)
  \/ \E u \in Runs : RowsRead(u)
  \/ UiTick

SpecUi == InitAccess /\ [][NextUi]_vars

\* -------------------------------------------------- OCR server: /detect
\* the state outside the OCR server
notSrvVars == << backendVars, confVars, uiVars >>

\* res.json / res.status(..).json: the request has returned
Respond(q, status, text) ==
  /\ srvResponse' = [srvResponse EXCEPT ![q] = [status |-> status,
                                                 text |-> text]]
  /\ srvPc' = [srvPc EXCEPT ![q] = "returned"]

\* a throw inside the try block: the catch block runs cleanupFile next
Throw(q) ==
  /\ caught' = [caught EXCEPT ![q] = TRUE]
  /\ srvPc' = [srvPc EXCEPT ![q] = "cleanup"]

\* A request arrives: the body is checked and the temp path is chosen.
Detect(q) ==
  /\ srvPc[q] = "new"
  /\ \E sent \in {"none", "blank", "text"} :
       /\ srvBody' = [srvBody EXCEPT ![q] = sent]
       /\ IF sent = "none"
            THEN /\ Respond(q, 400, NoText)
                 /\ UNCHANGED << imagePath, cleanupRequired >>
            ELSE /\ imagePath' = [imagePath EXCEPT ![q] = srvNow]
                 /\ cleanupRequired' = [cleanupRequired EXCEPT ![q] = TRUE]
                 /\ srvPc' = [srvPc EXCEPT ![q] = "load"]
                 /\ UNCHANGED srvResponse
  /\ UNCHANGED << srvNow, files, ocrResult, caught, notSrvVars >>

\* The image is read, fetched or decoded, and its format validated.
LoadImage(q) ==
  /\ srvPc[q] = "load"
  /\ \/ srvPc' = [srvPc EXCEPT ![q] = "write"] /\ UNCHANGED caught
     \/ Throw(q)
  /\ UNCHANGED << srvNow, files, srvBody, imagePath, cleanupRequired,
                  ocrResult, srvResponse, notSrvVars >>

\* writeFile(imagePath, ...): done, or failed with or without bytes written
SaveImage(q) ==
  /\ srvPc[q] = "write"
  /\ \/ /\ files' = WriteFile(files, imagePath[q], q, ImageOf(q, srvBody[q]))
        /\ srvPc' = [srvPc EXCEPT ![q] = "recognize"]
        /\ UNCHANGED caught
     \/ /\ files' = WriteFile(files, imagePath[q], q, Partial)
        /\ Throw(q)
     \/ /\ UNCHANGED files
        /\ Throw(q)
  /\ UNCHANGED << srvNow, srvBody, imagePath, cleanupRequired, ocrResult,
                  srvResponse, notSrvVars >>

\* tesseract.recognize(imagePath, config): reads whatever is at the path
RecognizeImage(q) ==
  /\ srvPc[q] = "recognize"
  /\ \/ /\ files[imagePath[q]] # NoFile
        /\ ocrResult' =
             [ocrResult EXCEPT ![q] = Recognize(files[imagePath[q]].content)]
        /\ srvPc' = [srvPc EXCEPT ![q] = "cleanup"]
        /\ UNCHANGED caught
     \/ /\ Throw(q)
        /\ UNCHANGED ocrResult
  /\ UNCHANGED << srvNow, files, srvBody, imagePath, cleanupRequired,
                  srvResponse, notSrvVars >>

\* the response after cleanupFile: 500 from the catch block, else the text
Finish(q) ==
  IF caught[q] THEN Respond(q, 500, NoText)
  ELSE Respond(q, 200, ocrResult[q])

\* cleanupFile up to its await: existsSync; with no file there it is done
\* and the response is sent.
CleanupFile(q) ==
  /\ srvPc[q] = "cleanup"
  /\ IF cleanupRequired[q] /\ files[imagePath[q]] # NoFile
       THEN srvPc' = [srvPc EXCEPT ![q] = "unlink"] /\ UNCHANGED srvResponse
       ELSE Finish(q)
  /\ UNCHANGED << srvNow, files, srvBody, imagePath, cleanupRequired,
                  ocrResult, caught, notSrvVars >>

\* unlink(filePath) settles: the file is removed, or unlink fails and the
\* error is logged; then the response is sent.
Unlink(q) ==
  /\ srvPc[q] = "unlink"
  /\ \/ files' = [files EXCEPT ![imagePath[q]] = NoFile]
     \/ UNCHANGED files
  /\ Finish(q)
  /\ UNCHANGED << srvNow, srvBody, imagePath, cleanupRequired, ocrResult,
                  caught, notSrvVars >>

\* A millisecond passes on the server.
SrvTick ==
  /\ srvNow < MaxSrvTicks
  /\ srvNow' = srvNow + 1
  /\ UNCHANGED << files, srvPc, srvBody, imagePath, cleanupRequired,
                  ocrResult, caught, srvResponse, notSrvVars >>

NextSrv ==
  \/ \E q \in SrvReqs : Detect(q)
  \/ \E q \in SrvReqs : LoadImage(q)
  \/ \E q \in SrvReqs : SaveImage(q)
  \/ \E q \in SrvReqs : RecognizeImage(q)
  \/ \E q \in SrvReqs : CleanupFile(q)
  \/ \E q \in SrvReqs : Unlink(q)
  \/ SrvTick

SpecSrv == InitAccess /\ [][NextSrv]_vars

TypeOK ==
  /\ variant \in {"index", "part_001"}
  /\ now \in 0..MaxNow
  /\ \A j \in JobIds :
       detection_jobs[j] = NoJob
         \/ detection_jobs[j].status \in {"pending", "processing", "completed", "failed"}
  /\ \A r \in Reqs : response[r].status \in {0, 200, 400, 404, 409, 500}

\* ------------------------------------------------- vocabulary of the claims

\* DetectionResults.tsx:453-477: the client reads the rows of the job ordered
\* by created_at ascending and takes detections[0] as the full text. Rows
\* with the same created_at come in an order the store chooses, so the row
\* read first is any row than which none is older.
ReadFirst(j) ==
  LET rows == RowsOf(detected_text, j) IN
  { rows[k].text_content : k \in { m \in 1..Len(rows) :
        \A o \in 1..Len(rows) : rows[m].created_at <= rows[o].created_at } }

Terminal == {"completed", "failed"}

\* the handler returns its response for request r in this step
Returns(r) == pc[r] # "done" /\ pc'[r] = "done"

\* request r has issued the outbound OCR request
Issued(r) ==
  \/ pc[r] \in {"vision", "insert", "setCompleted", "setFailedInsert"}
  \/ /\ pc[r] = "done"
     /\ response[r].status = 200 \/ response[r].error \in VisionErrors \cup {StoreMsg}

\* request r has inserted a Detection row
Inserted(r) == detectedTexts[r] # <<>> \/ response[r].detections # <<>>

\* error texts with which the handler rejects a request it finds invalid
ValidationErrors ==
  { "Valid Job ID is required", "Job ID is required", PayloadMsg,
    "Image size exceeds 10MB limit", "Invalid base64 image format",
    "Job not found", "Job is not pending" }

\* -------------------------------------------------------------------- C1
\* C1: for a job that was pending when process was called on it and that
\* the call moved on, the job's status at the moment the response is
\* returned is completed or failed.
C1_TerminalOnReturn ==
  [][\A r \in Reqs :
       (Returns(r) /\ statusAtCall'[r] = "pending" /\ mutated'[r])
         => StatusOf(detection_jobs', body'[r].jobId) \in Terminal]_vars

\* -------------------------------------------------------------------- C2
\* C2: over all process calls on one job, in every interleaving, at most
\* one outbound OCR request is issued.
C2_AtMostOneOcr ==
  \A j \in JobIds : Exists(detection_jobs, j) => ocrCalls[j] <= 1

\* -------------------------------------------------------------------- C3
\* C3: every status change of a job is pending->processing,
\* processing->completed or processing->failed (a job enters as pending).
AllowedTransitions ==
  { <<"absent", "pending">>, <<"pending", "processing">>,
    <<"processing", "completed">>, <<"processing", "failed">> }

C3_Monotonic ==
  [][\A j \in JobIds :
       StatusOf(detection_jobs, j) # StatusOf(detection_jobs', j)
         => <<StatusOf(detection_jobs, j), StatusOf(detection_jobs', j)>>
              \in AllowedTransitions]_vars

\* -------------------------------------------------------------------- C4
\* C4: a request that process rejects as invalid (missing or invalid
\* payload, oversized payload, unknown job, job not pending) has written
\* nothing to the store.
C4_ValidationFrame ==
  \A r \in Reqs : response[r].error \in ValidationErrors => ~mutated[r]

\* -------------------------------------------------------------------- C5
\* C5: when the outbound OCR call of a request fails, then at the moment the
\* response is returned the job is failed with a non-empty error_message,
\* and the response is a 500.
C5_UpstreamRecorded ==
  [][\A r \in Reqs :
       (Returns(r) /\ response'[r].error \in VisionErrors /\ mutated'[r])
         => /\ response'[r].status = 500
            /\ StatusOf(detection_jobs', JobOf(r)) = "failed"
            /\ detection_jobs'[JobOf(r)].error_message # Null]_vars

\* -------------------------------------------------------------------- C6
\* C6: when the backend returned N >= 1 annotations for a job that was
\* pending at the call and process answers with success, the job has exactly
\* N Detection rows, row k holding annotation k.
C6_RowsMatchAnnotations ==
  [][\A r \in Reqs :
       ( /\ Returns(r) /\ response'[r].status = 200
         /\ textAnnotations[r] >= 1 /\ statusAtCall[r] = "pending" )
       => LET rows == RowsOf(detected_text', JobOf(r)) IN
          /\ Len(rows) = textAnnotations[r]
          /\ \A k \in 1..Len(rows) : rows[k].text_content = k]_vars

\* -------------------------------------------------------------------- C7
\* an insert of request r, whose job exists, has returned an error
InsertFailed(r) ==
  /\ Exists(detection_jobs, JobOf(r))
  /\ \/ /\ variant = "index"
        /\ pc[r] \in {"insert", "setCompleted"}
        /\ Len(detectedTexts[r]) < i[r] - 1
     \/ /\ variant = "part_001"
        /\ pc[r] = "setFailedInsert"

\* C7: once a Detection insert of a request has failed, the request never
\* goes on to set the job completed, and it answers 500 with the job failed
\* and an error_message recorded.
C7_InsertFailureIsTerminal ==
  /\ [](\A r \in Reqs : InsertFailed(r) => pc[r] # "setCompleted")
  /\ [][\A r \in Reqs :
          (InsertFailed(r) /\ Returns(r)) =>
            /\ response'[r].status = 500
            /\ StatusOf(detection_jobs', JobOf(r)) = "failed"
            /\ detection_jobs'[JobOf(r)].error_message # Null]_vars

\* -------------------------------------------------------------------- C8
\* an otherwise well-formed request that arrived when its job was not pending
NonPendingCall(r) ==
  /\ pc[r] # "idle"
  /\ statusAtCall[r] \in {"processing", "completed", "failed"}
  /\ ValidateIndex(body[r]) = Null

\* C8: process called on a job that is processing, completed or failed
\* issues no OCR request, inserts no Detection row and answers 409.
C8_NonPendingConflict ==
  \A r \in Reqs :
    NonPendingCall(r) =>
      /\ ~Issued(r)
      /\ ~Inserted(r)
      /\ pc[r] = "done" => response[r].status = 409

\* -------------------------------------------------------------------- C9
\* an otherwise well-formed request whose jobId names no job
UnknownJobCall(r) ==
  /\ pc[r] # "idle"
  /\ JobOf(r) # 0
  /\ statusAtCall[r] = "absent"
  /\ ValidateIndex(body[r]) = Null

\* C9: process called with a jobId that names no job issues no OCR request,
\* creates no job and no Detection row, and answers 404.
C9_UnknownJobNotFound ==
  \A r \in Reqs :
    UnknownJobCall(r) =>
      /\ ~Issued(r)
      /\ ~Exists(detection_jobs, JobOf(r))
      /\ RowsOf(detected_text, JobOf(r)) = <<>>
      /\ pc[r] = "done" => response[r].status = 404

\* ------------------------------------------------------------------- C10
\* C10: with the backend credential absent, the step in which process finds
\* the key missing sets the job to failed with the message "GCP Vision API
\* key not configured" and returns a 500 response, without an OCR request
\* or a Detection insert; every request that moved a job on answers that
\* way, and no request ever issues an OCR request or inserts a row.
C10_MissingKey ==
  /\ [](~gcpApiKey =>
         \A r \in Reqs :
           /\ ~Issued(r) /\ ~Inserted(r)
           /\ (pc[r] = "done" /\ mutated[r])
                => response[r] = ErrorResponse(500, KeyResponseMsg))
  /\ [][\A r \in Reqs :
          (pc[r] = "setFailedNoKey" /\ pc'[r] # "setFailedNoKey") =>
            /\ ~gcpApiKey
            /\ response'[r].status = 500
            /\ ocrCalls' = ocrCalls /\ detected_text' = detected_text
            /\ Exists(detection_jobs, JobOf(r)) =>
                 /\ detection_jobs'[JobOf(r)].status = "failed"
                 /\ detection_jobs'[JobOf(r)].error_message = KeyMsg]_vars

\* a job that was pending at the call has been failed for the missing key
\* and its request has returned
C10_Witness ==
  \E r \in Reqs :
    /\ pc[r] = "done" /\ statusAtCall[r] = "pending" /\ ~gcpApiKey
    /\ response[r] = ErrorResponse(500, KeyResponseMsg)
    /\ detection_jobs[JobOf(r)].status = "failed"
    /\ detection_jobs[JobOf(r)].error_message = KeyMsg
    /\ ocrCalls[JobOf(r)] = 0

\* ------------------------------------------------------------------- C11
\* C11: when the backend answers with zero annotations for a job that was
\* pending at the call, that step sets the job to completed, inserts no
\* Detection row, and returns 200 with success and an empty detections list.
C11_EmptyResult ==
  [][\A r \in Reqs :
       (pc[r] = "vision" /\ VisionEmpty(r) /\ statusAtCall[r] = "pending") =>
         /\ StatusOf(detection_jobs', JobOf(r)) = "completed"
         /\ detected_text' = detected_text
         /\ pc'[r] = "done"
         /\ response'[r] = SuccessResponse(<<>>)]_vars

\* a request on a pending job has returned the empty success, the job is
\* completed and has no Detection row
C11_Witness ==
  \E r \in Reqs :
    /\ pc[r] = "done" /\ statusAtCall[r] = "pending"
    /\ response[r] = SuccessResponse(<<>>)
    /\ ocrCalls[JobOf(r)] = 1
    /\ detection_jobs[JobOf(r)].status = "completed"
    /\ RowsOf(detected_text, JobOf(r)) = <<>>

\* ------------------------------------------------------------------- C12
\* a request that names a job pending at the call and carries an inline
\* payload that decodes to more than the limit
OversizedCall(r) ==
  /\ pc[r] # "idle"
  /\ statusAtCall[r] = "pending"
  /\ DecodedLength(body[r].imageBase64) > maxSize

\* C12: process called with an inline payload larger than the limit issues
\* no OCR request, writes nothing to the job (it is left pending), and
\* answers 400.
C12_PayloadTooLarge ==
  \A r \in Reqs :
    OversizedCall(r) =>
      /\ ~Issued(r)
      /\ ~mutated[r]
      /\ pc[r] = "done" => response[r].status = 400

\* ------------------------------------------------------------------- C13
\* C13: the size check rejects an inline payload exactly when the payload
\* decodes to more than 10 MiB; in particular every file the client's size
\* check lets through is let through by the server's.
C13_SizeCheckExact ==
  \A r \in Reqs :
    pc[r] # "idle" =>
      LET rejected == response[r] = ErrorResponse(400, "Image size exceeds 10MB limit")
          n == DecodedLength(body[r].imageBase64)
      IN /\ rejected <=> n > maxSize
         /\ ClientAccepts(n) => ~rejected

\* ------------------------------------------------------------------- C14
\* a request that names a job pending at the call and carries neither
\* imageUrl nor imageBase64
NoPayloadCall(r) ==
  /\ pc[r] # "idle"
  /\ statusAtCall[r] = "pending"
  /\ NoPayload(body[r])

\* C14: process called with neither imageUrl nor imageBase64 issues no OCR
\* request, writes nothing to the job (it is left pending and unchanged),
\* and answers 400.
C14_NoPayloadRejected ==
  \A r \in Reqs :
    NoPayloadCall(r) =>
      /\ ~Issued(r)
      /\ ~mutated[r]
      /\ pc[r] = "done" => response[r].status = 400

\* ------------------------------------------------------------------- C15
\* a request that names a job pending at the call and carries both an
\* imageUrl and an imageBase64
BothPayloadsCall(r) ==
  /\ pc[r] # "idle"
  /\ statusAtCall[r] = "pending"
  /\ body[r].imageUrl /\ body[r].imageBase64.len > 0

\* C15: a request that carries both imageUrl and imageBase64 is rejected
\* with 400 and does not move the job out of pending.
C15_ExactlyOnePayload ==
  \A r \in Reqs :
    BothPayloadsCall(r) =>
      /\ ~mutated[r]
      /\ pc[r] = "done" => response[r].status = 400

\* ------------------------------------------------------------------- C16
\* syntactically valid base64: the alphabet with at most two '=' at the
\* end, and a length that base64 text can have (never 1 modulo 4 without
\* the padding, a multiple of 4 with padding)
ValidBase64(b64) ==
  /\ b64.ok
  /\ (b64.len - b64.pad) % 4 # 1
  /\ b64.pad > 0 => b64.len % 4 = 0

\* a request that names a job pending at the call and carries only an
\* inline payload, of allowed size, that is not valid base64
InvalidBase64Call(r) ==
  /\ pc[r] # "idle"
  /\ statusAtCall[r] = "pending"
  /\ ~body[r].imageUrl /\ body[r].imageBase64.len > 0
  /\ ~TooLarge(body[r].imageBase64)
  /\ ~ValidBase64(body[r].imageBase64)

\* C16: process called with an inline payload that is not syntactically
\* valid base64 issues no OCR request, writes nothing to the job, and
\* answers 400.
C16_InvalidBase64Rejected ==
  \A r \in Reqs :
    InvalidBase64Call(r) =>
      /\ ~Issued(r)
      /\ ~mutated[r]
      /\ pc[r] = "done" => response[r].status = 400

\* ------------------------------------------------------------------- C17
\* C17: a request whose jobId is missing, empty or not a string is answered
\* 400 with an error text, without a store write or an OCR request.
C17_JobIdRequired ==
  \A r \in Reqs :
    (pc[r] # "idle" /\ JobOf(r) \in {0, NonString}) =>
      /\ pc[r] = "done"
      /\ response[r].status = 400 /\ response[r].error # Null
      /\ ~mutated[r]
      /\ ~Issued(r)

\* ------------------------------------------------------------------- C18
\* C18: at the moment process returns for an existing job, the stored
\* status agrees with the response: completed when the response is the 200
\* success, also when a status write failed on the way; failed when the
\* response is an error and the request had moved the job on.
C18_StatusAgreesWithResponse ==
  [][\A r \in Reqs :
       (Returns(r) /\ Exists(detection_jobs', JobOf(r))) =>
         /\ response'[r].status = 200
              => StatusOf(detection_jobs', JobOf(r)) = "completed"
         /\ (response'[r].status # 200 /\ mutated'[r])
              => StatusOf(detection_jobs', JobOf(r)) = "failed"]_vars

\* ------------------------------------------------------------------- C19
\* C19: for every job with at least one Detection row, the row the client
\* reads first is the full-text row (annotation 1), and it is the only
\* full-text row of the job: the other rows are the elements.
C19_FullTextFirst ==
  \A j \in JobIds :
    LET rows == RowsOf(detected_text, j) IN
    rows # <<>> =>
      /\ ReadFirst(j) = {1}
      /\ Cardinality({ k \in 1..Len(rows) : rows[k].text_content = 1 }) = 1

\* ------------------------------------------------------------------- C20
\* request r has not got a successful answer from the backend: it is still
\* before that answer, or it has returned with a validation error, for the
\* missing key, or with a backend error
NoOcrSuccess(r) ==
  \/ pc[r] \in {"setProcessing", "setFailedNoKey", "vision"}
  \/ /\ pc[r] = "done"
     /\ response[r].error \in ValidationErrors \cup VisionErrors
                               \cup {"Failed to fetch job", KeyResponseMsg}

\* C20: a step that changes detected_text is a step of a request whose OCR
\* call has returned successfully, and it only adds rows of that request's
\* job behind the rows already there (no row is changed or removed); a job
\* for which no call got a successful backend answer has no Detection row.
C20_RowsOnlyAfterOcr ==
  /\ [](\A j \in JobIds :
          (\A r \in Reqs : (pc[r] # "idle" /\ JobOf(r) = j) => NoOcrSuccess(r))
            => RowsOf(detected_text, j) = <<>>)
  /\ [][\A j \in JobIds :
          detected_text'[j] # detected_text[j] =>
            /\ Len(detected_text'[j]) > Len(detected_text[j])
            /\ SubSeq(detected_text'[j], 1, Len(detected_text[j])) = detected_text[j]
            /\ \A k \in 1..Len(detected_text'[j]) : detected_text'[j][k].job_id = j
            /\ ocrCalls[j] >= 1
            /\ \E r \in Reqs :
                 /\ JobOf(r) = j
                 /\ pc[r] \in {"vision", "insert"}
                 /\ pc'[r] \in {"insert", "setCompleted"}]_vars

\* the backend call of a request has failed, the request has returned, and
\* its job, for which the OCR request was issued, has no Detection row
C20_Witness ==
  \E r \in Reqs :
    /\ pc[r] = "done" /\ statusAtCall[r] = "pending"
    /\ response[r].error \in VisionErrors
    /\ ocrCalls[JobOf(r)] = 1
    /\ RowsOf(detected_text, JobOf(r)) = <<>>

\* ------------------------------------------------------------------- C21
\* C21: in every reachable state, a job with an error_message has the
\* status failed.
C21_ErrorMessageOnlyWhenFailed ==
  \A j \in JobIds :
    Exists(detection_jobs, j) =>
      (detection_jobs[j].error_message # Null => detection_jobs[j].status = "failed")

\* ------------------------------------------------------------------- C22
\* request r takes this step
StepOf(r) ==
  pc'[r] # pc[r] \/ i'[r] # i[r] \/ detectedTexts'[r] # detectedTexts[r]

\* what the call of request r, run alone on a pending job, leaves of the job
\* when it returns: the status and error_message that go with its response,
\* and the rows it returned
AloneOutcome(r) ==
  LET job == detection_jobs'[JobOf(r)]
      rows == RowsOf(detected_text', JobOf(r))
      resp == response'[r]
  IN
  \/ /\ resp.status = 200
     /\ job.status = "completed" /\ job.error_message = Null
     /\ rows = resp.detections
  \/ /\ resp = ErrorResponse(500, KeyResponseMsg)
     /\ job.status = "failed" /\ job.error_message = KeyMsg
     /\ rows = <<>>
  \/ /\ resp.status = 500 /\ resp.error \in VisionErrors
     /\ job.status = "processing" /\ job.error_message = Null
     /\ rows = <<>>
  \/ /\ resp = ErrorResponse(500, StoreMsg)
     /\ job.status = "failed" /\ job.error_message = StoreMsg
     /\ rows = <<>>

\* C22: with calls running concurrently on different jobs, a step of the
\* call for one job changes no other job (status, timestamps, error_message)
\* and no other job's Detection rows, and when a call returns its job is in
\* the state the call alone produces.
C22_JobsIsolated ==
  [][\A r \in Reqs :
       /\ StepOf(r) =>
            \A j \in JobIds \ {body'[r].jobId} :
              /\ detection_jobs'[j] = detection_jobs[j]
              /\ detected_text'[j] = detected_text[j]
       /\ Returns(r) => AloneOutcome(r)]_vars

\* two calls have run at the same time on two jobs and have returned with
\* different results, each job showing its own call's result
C22_Witness ==
  \E r, q \in Reqs :
    /\ JobOf(r) # JobOf(q)
    /\ pc[r] = "done" /\ pc[q] = "done"
    /\ ts[q] = 0
    /\ response[r].status = 200 /\ response[r].detections # <<>>
    /\ RowsOf(detected_text, JobOf(r)) = response[r].detections
    /\ response[q].error \in VisionErrors
    /\ detection_jobs[JobOf(q)].status = "processing"
    /\ RowsOf(detected_text, JobOf(q)) = <<>>

\* ------------------------------------------------------------------- C23
\* The handler keeps running and every awaited call (the store, the Vision
\* API) returns, with a result or an error: each awaited step of a request
\* is eventually taken. Callers are not obliged to call.
HandlerRuns ==
  \A r \in Reqs :
    /\ WF_vars(SetProcessing(r))
    /\ WF_vars(SetFailedNoKey(r))
    /\ WF_vars(Vision(r))
    /\ WF_vars(InsertRow(r))
    /\ WF_vars(SetFailedInsert(r))
    /\ WF_vars(SetCompleted(r))

SpecLive == Init /\ [][Next]_vars /\ HandlerRuns

\* C23: every job that enters processing eventually reaches completed or
\* failed, provided the handler keeps running and its awaited calls return.
C23_ProcessingTerminates ==
  \A j \in JobIds :
    (Exists(detection_jobs, j) /\ detection_jobs[j].status = "processing")
      ~> (Exists(detection_jobs, j) /\ detection_jobs[j].status \in Terminal)

\* ------------------------------------------------------------------- C24
\* C24: a row inserted with a bounding box of 4 points reads back as the
\* same 4 points in the same order, and a row inserted without a bounding
\* box reads back as absent.
C24_BoundingBoxRoundTrip ==
  readBox # NoJson => readBox = vertices

\* ------------------------------------------------------------------- C25
\* C25: every job that an anonymous or authenticated caller reads or
\* updates, and every job whose Detection rows it reads, has a null owner or
\* the caller's identity as owner; such a caller never reads or updates a
\* job owned by a different identity.
C25_OwnOrAnonymousOnly ==
  /\ [](\A c \in Users :
          /\ \A row \in SelectJobs(c) :
               row.user_id = 0 \/ (c.uid # 0 /\ row.user_id = c.uid)
          /\ \A j \in JobIds :
               SelectText(c, j) # <<>> => JobRow(j) \in SelectJobs(c))
  /\ [][\A j \in JobIds :
          (/\ access'.role \in {"anon", "authenticated"}
           /\ Exists(detection_jobs, j)
           /\ (detection_jobs'[j] # detection_jobs[j] \/ user_id'[j] # user_id[j]))
            => /\ access'.uid # 0
               /\ user_id[j] = access'.uid /\ user_id'[j] = access'.uid]_vars

\* an authenticated caller has updated its job; reading, it is shown that
\* job and its Detection rows, and is shown neither another identity's job,
\* which exists, nor that job's Detection rows
C25_Witness ==
  \E j, k \in JobIds :
    /\ access.role = "authenticated" /\ access.op = "update_job"
    /\ Exists(detection_jobs, j) /\ user_id[j] = access.uid
    /\ detection_jobs[j].status = "processing"
    /\ JobRow(j) \in SelectJobs(access)
    /\ SelectText(access, j) # <<>>
    /\ Exists(detection_jobs, k) /\ user_id[k] \notin {0, access.uid}
    /\ RowsOf(detected_text, k) # <<>>
    /\ JobRow(k) \notin SelectJobs(access)
    /\ SelectText(access, k) = <<>>

\* ------------------------------------------------------------------- C26
\* C26: Detection rows are inserted by the service role only; an anonymous
\* or authenticated caller's insert into detected_text changes nothing, and
\* so does its update of a job owned by another identity.
C26_ServiceRoleOnly ==
  [][/\ detected_text' # detected_text
          => access'.role = "service_role" /\ access'.op = "insert_text"
     /\ (access'.role \in {"anon", "authenticated"} /\ access'.op = "insert_text")
          => UNCHANGED << detection_jobs, detected_text, user_id >>
     /\ (access'.role \in {"anon", "authenticated"} /\ access'.op = "update_job")
          => \A j \in JobIds :
               (Exists(detection_jobs, j) /\ user_id[j] \notin {0, access'.uid})
                 => /\ detection_jobs'[j] = detection_jobs[j]
                    /\ user_id'[j] = user_id[j]
                    /\ detected_text'[j] = detected_text[j]]_vars

\* the service role has inserted a Detection row for a job that has an
\* owner, and an anonymous caller has then sent an insert
C26_Witness ==
  /\ access.role = "anon" /\ access.op = "insert_text"
  /\ \E j \in JobIds :
       /\ Exists(detection_jobs, j) /\ user_id[j] # 0
       /\ Len(RowsOf(detected_text, j)) = 1

\* ------------------------------------------------------------------- C27
\* C27: in every reachable state every Detection row's job_id is the id of
\* an existing job: an insert for a job that does not exist stores nothing
\* and the delete of a job removes its Detection rows.
C27_RowsReferenceJobs ==
  \A j \in JobIds :
    /\ \A k \in 1..Len(detected_text[j]) : detected_text[j][k].job_id = j
    /\ detected_text[j] # <<>> => Exists(detection_jobs, j)

\* a job that had Detection rows has been deleted, another job has rows,
\* and the last statement was an insert by the service role
C27_Witness ==
  \E d \in deleted, k \in JobIds :
    /\ d.rows > 0
    /\ ~Exists(detection_jobs, d.id) /\ detected_text[d.id] = <<>>
    /\ detected_text[k] # <<>>
    /\ access.role = "service_role" /\ access.op = "insert_text"

\* ------------------------------------------------------------------- C28
\* C28: in every state where the OCR call of a request is in flight, the
\* stored status of the request's job is processing; the OCR request is
\* not issued when the write that sets processing did not take effect.
C28_ProcessingBeforeOcr ==
  \A r \in Reqs :
    pc[r] = "vision" =>
      /\ Exists(detection_jobs, JobOf(r))
      /\ detection_jobs[JobOf(r)].status = "processing"

\* ------------------------------------------------------------------- C29
\* C29: summed over all calls on one job, at most one outbound OCR request
\* is issued for the job.
C29_OneOcrPerJob ==
  \A j \in JobIds : ocrCalls[j] <= 1

\* ------------------------------------------------------------------- C30
\* the rows of s are rows of t, in the order they have in t
RECURSIVE InOrderAmong(_, _)
InOrderAmong(s, t) ==
  IF s = <<>> THEN TRUE
  ELSE IF t = <<>> THEN FALSE
  ELSE IF Head(s) = Head(t) THEN InOrderAmong(Tail(s), Tail(t))
  ELSE InOrderAmong(s, Tail(t))

\* no other call has arrived for the job of request r: the rows of the job
\* are the rows this call has persisted
OnlyCallOnJob(r) ==
  \A q \in Reqs \ {r} : pc[q] = "idle" \/ JobOf(q) # JobOf(r)

\* C30: when a call returns 200, the detections of its response are the
\* Detection rows the call has persisted for the job, in insertion order,
\* and the count in the message is the number of those rows.
C30_ResponseListsPersistedRows ==
  [][\A r \in Reqs :
       (Returns(r) /\ response'[r].status = 200) =>
         LET rows == RowsOf(detected_text', JobOf(r)) IN
         /\ response'[r].count = Len(response'[r].detections)
         /\ InOrderAmong(response'[r].detections, rows)
         /\ OnlyCallOnJob(r) => response'[r].detections = rows]_vars

\* a call has returned 200 after the insert of the full text failed and a
\* later insert succeeded: the response lists the one row that is stored
C30_Witness ==
  \E r \in Reqs :
    /\ pc[r] = "done" /\ response[r].status = 200
    /\ response[r].detections # <<>>
    /\ response[r].detections[1].text_content # 1
    /\ response[r].detections = RowsOf(detected_text, JobOf(r))
    /\ response[r].count = Len(RowsOf(detected_text, JobOf(r)))

\* ------------------------------------------------------------------- C31
\* C31: the confidence of a persisted Detection row is the confidence the
\* backend reported for the annotation whenever it reported one, a reported
\* 0 included, and 0.95 when the backend left it out.
C31_ConfidenceKept ==
  confidence # NotStored =>
    confidence = IF annotationConfidence = Absent THEN 95
                                                  ELSE annotationConfidence

\* ------------------------------------------------------------------- C32
\* C32: a write of the handler that changes a job's status sets updated_at
\* to the time of the write, so updated_at never decreases across the job's
\* transitions; created_at is never modified.
C32_UpdatedAtRefreshed ==
  [][\A j \in JobIds :
       (Exists(detection_jobs, j) /\ Exists(detection_jobs', j)) =>
         /\ detection_jobs'[j].created_at = detection_jobs[j].created_at
         /\ detection_jobs'[j].status # detection_jobs[j].status
              => /\ detection_jobs'[j].updated_at >= detection_jobs[j].updated_at
                 /\ \E r \in Reqs :
                      /\ StepOf(r) /\ body'[r].jobId = j
                      /\ detection_jobs'[j].updated_at \in ts[r]..now]_vars

\* ------------------------------------------------------------------- C33
\* C33: an invocation of handleDetectText less than 2000 ms after the last
\* accepted one sets the throttle message, creates no job, sends no request,
\* starts no run and leaves the time of the last accepted request alone; an
\* invocation 2000 ms or more after it is accepted: it records the time,
\* clears the error, sets detecting and creates a job. No other callback
\* changes the time of the last accepted request.
C33_Throttle ==
  [][IF uiOp' = "handleDetectText"
       THEN IF uiNow - lastRequestTime < 2000
              THEN /\ error' = ThrottleMsg
                   /\ jobsCreated' = jobsCreated
                   /\ requestsSent' = requestsSent
                   /\ runPc' = runPc
                   /\ detecting' = detecting
                   /\ lastRequestTime' = lastRequestTime
              ELSE /\ lastRequestTime' = uiNow
                   /\ error' = Null
                   /\ detecting'
                   /\ jobsCreated' = jobsCreated + 1
                   /\ InFlight(runPc') # InFlight(runPc)
       ELSE lastRequestTime' = lastRequestTime]_vars

\* a second invocation was accepted exactly 2000 ms after the first, and the
\* one after it was throttled
C33_Witness ==
  /\ uiOp = "handleDetectText"
  /\ error = ThrottleMsg
  /\ jobsCreated = 2
  /\ lastRequestTime = UiStart + 2000
  /\ requestsSent < 2

\* ------------------------------------------------------------------- C34
\* C34: every run of handleDetectText that ends, on whichever path, leaves
\* detecting false; while detecting is true no run starts and no file is
\* taken by the uploader; so at most one run is in flight at any time, and
\* detecting is true exactly while one is.
C34_DetectingReset ==
  /\ [](/\ Cardinality(InFlight(runPc)) <= 1
        /\ detecting <=> InFlight(runPc) # {})
  /\ [][/\ \A u \in Runs :
             (u \in InFlight(runPc) /\ u \notin InFlight(runPc')) =>
               /\ runPc'[u] \in {"done", "failed"}
               /\ ~detecting'
        /\ detecting =>
             /\ InFlight(runPc') \subseteq InFlight(runPc)
             /\ reading' => reading
             /\ jobsCreated' = jobsCreated
             /\ requestsSent' \in {requestsSent, requestsSent + 1}]_vars

\* one run has ended in the catch block and a later one with rows read, and
\* the button is enabled again
C34_Witness ==
  /\ runPc[1] = "failed"
  /\ runPc[2] = "done"
  /\ ~detecting
  /\ ~Disabled(detecting)

\* ------------------------------------------------------------------- C35
\* the messages of a request that failed at the function or at the read
RequestErrors ==
  {DetectErrorMsg, NetworkErrorMsg, FetchErrorMsg} \cup (ResultErrors \ {Null})

\* C35: when the last detection request has failed at the function or at
\* the read of the rows, the error is shown and the results panel does not
\* show "No text detected in the image".
C35_FailureNotShownAsEmpty ==
  (~detecting /\ error \in RequestErrors /\ \E u \in Runs : runPc[u] = "failed")
    => ResultsPanel(detecting, detections, jobId)
         # "No text detected in the image"

\* ------------------------------------------------------------------- C36
\* C36: once a /detect request has returned, no file that it created is
\* left in the temp directory.
C36_TempFileRemoved ==
  \A q \in SrvReqs :
    srvPc[q] = "returned" => \A p \in Paths : files[p].creator # q

\* ------------------------------------------------------------------- C37
\* the requests that hold a temp path and have not returned
Handling == {q \in SrvReqs : srvPc[q] \notin {"new", "returned"}}

\* C37: two requests handled at the same time never hold the same temp
\* path, and every 200 response carries the text of the image its own
\* request sent.
C37_OwnTempFile ==
  /\ \A q1, q2 \in Handling : q1 # q2 => imagePath[q1] # imagePath[q2]
  /\ \A q \in SrvReqs :
       (srvPc[q] = "returned" /\ srvResponse[q].status = 200)
         => srvResponse[q].text = ImageOf(q, srvBody[q])

====
